---- MODULE Spec2Model ----
(***************************************************************************)
(* Model of projeto_etl_ibge.py: the ETL pipeline                          *)
(*   extrair_dados -> explorar_dados -> limpar_dados -> transformar_dados  *)
(*   -> enriquecer_dados -> carregar_dados                                 *)
(* run once by pipeline_completa.  A DataFrame is a record                 *)
(*   [index |-> sequence of row labels, data |-> sequence of rows]         *)
(* where a row is a function from column names to cells.  The None that    *)
(* extrair_dados and enriquecer_dados return is the record None.           *)
(***************************************************************************)
EXTENDS Integers, Sequences, FiniteSets, TLC

\* Largest number of objects in the JSON array the API answers with.
MaxRows == 3

\* The numeric missing-value marker pd.to_numeric(errors='coerce') produces.
NaN == -1

\* The missing-value marker of a text column.
NaNStr == "NaN"

None == [none |-> TRUE]

----------------------------------------------------------------------------
(* Cells of the raw JSON: an identifier is a JSON integer, a JSON string   *)
(* holding digits, or JSON null; NaNCell is the hole index alignment       *)
(* leaves where a label has no partner.                                    *)

IntCell(n) == [t |-> "int", v |-> n]
StrCell(n) == [t |-> "str", v |-> n]
NullCell == [t |-> "null", v |-> 0]
NaNCell == [t |-> "nan", v |-> 0]

RawIds == {IntCell(1), StrCell(1), NullCell}

UFs == { [id |-> IntCell(10), sigla |-> "AL", nome |-> "Alagoas"],
         [id |-> IntCell(20), sigla |-> "SP", nome |-> "Sao Paulo"] }

Names == {"Alpha"}

ApiRecord(id, nome, uf) ==
    [id |-> id, nome |-> nome,
     microrregiao |-> [mesorregiao |-> [UF |-> uf]]]
    @@ ("regiao-imediata" :> [nome |-> "RI"])

ApiRecords == { ApiRecord(id, nome, uf) : id \in RawIds, nome \in Names, uf \in UFs }

\* The bodies a successful GET can carry: non-empty arrays of records.
ApiResponses == UNION { [1..n -> ApiRecords] : n \in 1..MaxRows }

\* What requests.get / raise_for_status can do.
NetOutcomes == {"ok", "timeout", "connection_error", "http_error"}

----------------------------------------------------------------------------
(* pandas primitives, as far as the pipeline uses them                     *)

RangeIndex(n) == [i \in 1..n |-> i - 1]

DataFrame(data) == [index |-> RangeIndex(Len(data)), data |-> data]

NRows(df) == Len(df.data)

\* positions of a sequence of flags that are FALSE, in increasing order
RECURSIVE KeepFrom(_, _)
KeepFrom(flags, i) ==
    IF i > Len(flags) THEN << >>
    ELSE IF flags[i] THEN KeepFrom(flags, i + 1)
    ELSE <<i>> \o KeepFrom(flags, i + 1)

\* df[~flags]: the rows keep their index labels
Take(df, pos) ==
    [index |-> [k \in 1..Len(pos) |-> df.index[pos[k]]],
     data  |-> [k \in 1..Len(pos) |-> df.data[pos[k]]]]

RenameCol(c) ==
    IF c = "id" THEN "id_municipio"
    ELSE IF c = "nome" THEN "nome_municipio"
    ELSE c

RenameRow(r) ==
    [c2 \in { RenameCol(c) : c \in DOMAIN r } |->
        r[CHOOSE c \in DOMAIN r : RenameCol(c) = c2]]

rename(df) ==
    [index |-> df.index, data |-> [i \in 1..NRows(df) |-> RenameRow(df.data[i])]]

\* duplicated(keep='last'): TRUE where a later row has the key
duplicated_keep_last(df, col) ==
    [i \in 1..NRows(df) |->
        \E j \in (i + 1)..NRows(df) : df.data[j][col] = df.data[i][col]]

\* DataFrame.duplicated(subset=[col]): TRUE where an earlier row has the key
duplicated(df, col) ==
    [i \in 1..NRows(df) |->
        \E j \in 1..(i - 1) : df.data[j][col] = df.data[i][col]]

CountTrue(flags) == Cardinality({ i \in DOMAIN flags : flags[i] })

\* a removal that drops one duplicated row per call
drop_first_duplicate(df, col) ==
    LET flags == duplicated(df, col)
        d == CHOOSE i \in DOMAIN flags : flags[i] /\ \A j \in 1..(i - 1) : ~flags[j]
    IN  Take(df, KeepFrom([i \in DOMAIN flags |-> i = d], 1))

drop_duplicates(df, col) == Take(df, KeepFrom(duplicated(df, col), 1))

limpar_dados(df) ==
    LET df_renamed == rename(df)
    IN  IF CountTrue(duplicated(df_renamed, "id_municipio")) > 0
        THEN drop_duplicates(df_renamed, "id_municipio")
        ELSE df_renamed

\* pd.to_numeric(errors='coerce') on one cell
to_numeric(c) == IF c.t \in {"int", "str"} THEN c.v ELSE NaN

\* pd.json_normalize(df['microrregiao']): one flat row per element.  The
\* result carries the Series' index on pandas builds that keep it and a
\* fresh RangeIndex on those that do not.
json_normalize(df, keepsIndex) ==
    [index |-> IF keepsIndex THEN df.index ELSE RangeIndex(NRows(df)),
     data  |-> [i \in 1..NRows(df) |->
        LET uf == df.data[i].microrregiao.mesorregiao.UF
        IN  ("mesorregiao.UF.id" :> uf.id) @@
            ("mesorregiao.UF.sigla" :> uf.sigla) @@
            ("mesorregiao.UF.nome" :> uf.nome)]]

\* the value df[col] = series gives the row labelled l: label alignment
Aligned(series, col, l, missing) ==
    IF \E k \in DOMAIN series.index : series.index[k] = l
    THEN series.data[CHOOSE k \in DOMAIN series.index : series.index[k] = l][col]
    ELSE missing

DropCols(r, cols) == [c \in (DOMAIN r) \ cols |-> r[c]]

\* df after the three column assignments of lines 95-97 (made in place)
WithUF(df, keepsIndex) ==
    LET df_normalized == json_normalize(df, keepsIndex)
    IN  [index |-> df.index,
         data  |-> [i \in 1..NRows(df) |->
            ("id_uf" :> Aligned(df_normalized, "mesorregiao.UF.id", df.index[i], NaNCell)) @@
            ("sigla_uf" :> Aligned(df_normalized, "mesorregiao.UF.sigla", df.index[i], NaNStr)) @@
            ("nome_uf" :> Aligned(df_normalized, "mesorregiao.UF.nome", df.index[i], NaNStr)) @@
            df.data[i]]]

transformar_dados(df, keepsIndex) ==
    LET d == WithUF(df, keepsIndex)
    IN  [index |-> d.index,
         data  |-> [i \in 1..NRows(d) |->
            LET r == DropCols(d.data[i], {"microrregiao", "regiao-imediata"})
            IN  [r EXCEPT !["id_municipio"] = to_numeric(@),
                          !["id_uf"] = to_numeric(@)]]]

----------------------------------------------------------------------------
(* enriquecer_dados                                                        *)

RefRow(codigo, regiao) == [codigo_uf |-> codigo, nome_regiao |-> regiao]

\* Contents regioes_enriquecimento.csv can have when it exists; the last one
\* repeats a codigo_uf.
RefTables ==
    { <<RefRow(10, "Nordeste")>>,
      <<RefRow(10, "Nordeste"), RefRow(20, "Sudeste")>>,
      <<RefRow(10, "Nordeste"), RefRow(10, "Sul")>> }

RECURSIVE Flatten(_)
Flatten(ss) == IF ss = << >> THEN << >> ELSE Head(ss) \o Flatten(Tail(ss))

\* the rows a left row contributes to pd.merge(how='inner')
MergeRows_inner(r, right) ==
    LET m == SelectSeq(right.data, LAMBDA x : x.codigo_uf = r["id_uf"])
    IN  [k \in 1..Len(m) |-> r @@ m[k]]

\* the rows a left row contributes to pd.merge(how='left')
MergeRows(r, right) ==
    LET m == SelectSeq(right.data, LAMBDA x : x.codigo_uf = r["id_uf"])
    IN  IF m = << >>
        THEN << r @@ ("codigo_uf" :> NaN) @@ ("nome_regiao" :> NaNStr) >>
        ELSE [k \in 1..Len(m) |-> r @@ m[k]]

merge(left, right) ==
    DataFrame(Flatten([i \in 1..NRows(left) |-> MergeRows(left.data[i], right)]))

enriquecer_dados(df, df_reg) ==
    LET df_merged == merge(df, df_reg)
    IN  [index |-> df_merged.index,
         data  |-> [i \in 1..NRows(df_merged) |->
                        DropCols(df_merged.data[i], {"codigo_uf"})]]

----------------------------------------------------------------------------
(* carregar_dados and the destination table                                *)

colunas_finais ==
    {"id_municipio", "nome_municipio", "id_uf", "sigla_uf", "nome_uf", "nome_regiao"}

Select(df, cols) ==
    [index |-> df.index,
     data  |-> [i \in 1..NRows(df) |-> [c \in cols |-> df.data[i][c]]]]

CredNames == {"DB_USER", "DB_PASSWORD", "DB_HOST", "DB_NAME"}

\* os.getenv per name: TRUE when it gives a non-empty string
Environments == [CredNames -> BOOLEAN]

\* `not any([...])`: only a fully empty configuration stops the load
CredentialsMissing_any(env) == \A n \in CredNames : ~env[n]

\* `not all([...])` of line 154
CredentialsMissing(env) == \E n \in CredNames : ~env[n]

NULL == [null |-> TRUE]
SqlInt(v) == IF v = NaN THEN NULL ELSE [null |-> FALSE, val |-> v]
SqlStr(v) == IF v = NaNStr THEN NULL ELSE [null |-> FALSE, val |-> v]

\* the row to_sql(index=False, dtype=sql_types) inserts for a DataFrame row
SqlRow(r) ==
    [id_municipio   |-> SqlInt(r["id_municipio"]),
     nome_municipio |-> SqlStr(r["nome_municipio"]),
     id_uf          |-> SqlInt(r["id_uf"]),
     sigla_uf       |-> SqlStr(r["sigla_uf"]),
     nome_uf        |-> SqlStr(r["nome_uf"]),
     nome_regiao    |-> SqlStr(r["nome_regiao"])]

SqlRows(df) == [i \in 1..NRows(df) |-> SqlRow(df.data[i])]

NoTable == [exists |-> FALSE, rows |-> << >>, pk |-> FALSE]

\* the table a previous run left behind
OldTable ==
    [exists |-> TRUE,
     rows |-> << [id_municipio   |-> [null |-> FALSE, val |-> 99],
                  nome_municipio |-> [null |-> FALSE, val |-> "Old"],
                  id_uf          |-> [null |-> FALSE, val |-> 10],
                  sigla_uf       |-> [null |-> FALSE, val |-> "AL"],
                  nome_uf        |-> [null |-> FALSE, val |-> "Alagoas"],
                  nome_regiao    |-> [null |-> FALSE, val |-> "Nordeste"]] >>,
     pk |-> TRUE]

\* ALTER TABLE ... ADD PRIMARY KEY (id_municipio) is refused on these rows
PkViolation(rows) ==
    \/ \E i \in DOMAIN rows : rows[i].id_municipio = NULL
    \/ \E i, j \in DOMAIN rows : i < j /\ rows[i].id_municipio = rows[j].id_municipio

\* the steps with if_exists='append': an existing table is kept
LoadSteps_append(dbBefore) ==
    <<"create_engine", "connect">>
    \o (IF dbBefore.exists THEN << >> ELSE <<"create">>)
    \o <<"insert", "reconnect", "alter">>

\* The steps of the try block, in order.  to_sql(if_exists='replace') opens
\* a connection, drops the table when it exists, creates it and inserts.
LoadSteps(dbBefore) ==
    <<"create_engine", "connect">>
    \o (IF dbBefore.exists THEN <<"drop">> ELSE << >>)
    \o <<"create", "insert", "reconnect", "alter">>

\* the places an exception can be injected; "none" injects nothing
FailPoints ==
    {"none", "create_engine", "connect", "drop", "create", "insert", "reconnect", "alter"}

\* does step s raise, given the table it runs against
Raises(s, fail, db) == s = fail \/ (s = "alter" /\ PkViolation(db.rows))

ApplyStep(db, s, rows) ==
    CASE s = "drop"   -> NoTable
      [] s = "create" -> [exists |-> TRUE, rows |-> << >>, pk |-> FALSE]
      [] s = "insert" -> [db EXCEPT !.rows = db.rows \o rows]
      [] s = "alter"  -> [db EXCEPT !.pk = TRUE]
      [] OTHER        -> db

\* a try block per step: the exception is logged and the next step runs
RECURSIVE RunSteps_keep_going(_, _, _, _, _, _)
RunSteps_keep_going(db, steps, k, rows, fail, log) ==
    IF k > Len(steps) THEN [db |-> db, log |-> log, caught |-> "none"]
    ELSE IF Raises(steps[k], fail, db)
         THEN [RunSteps_keep_going(db, steps, k + 1, rows, fail, Append(log, steps[k]))
                  EXCEPT !.caught = steps[k]]
         ELSE RunSteps_keep_going(ApplyStep(db, steps[k], rows), steps, k + 1, rows,
                                  fail, Append(log, steps[k]))

\* Runs steps[k..]; the first step that raises ends the try block (the
\* except clause of line 190 logs and the function returns).
RECURSIVE RunSteps(_, _, _, _, _, _)
RunSteps(db, steps, k, rows, fail, log) ==
    IF k > Len(steps) THEN [db |-> db, log |-> log, caught |-> "none"]
    ELSE IF Raises(steps[k], fail, db)
         THEN [db |-> db, log |-> Append(log, steps[k]), caught |-> steps[k]]
         ELSE RunSteps(ApplyStep(db, steps[k], rows), steps, k + 1, rows, fail,
                       Append(log, steps[k]))

carregar_dados(df, env, dbBefore, fail) ==
    IF CredentialsMissing(env)
    THEN [db |-> dbBefore, log |-> << >>, caught |-> "none"]
    ELSE RunSteps(dbBefore, LoadSteps(dbBefore), 1, SqlRows(df), fail, << >>)

----------------------------------------------------------------------------
(* pipeline_completa                                                       *)

VARIABLES
    pc,              \* position of pipeline_completa
    net,             \* what the GET of line 33-34 did, "none" before it
    trace,           \* the stage functions called so far, in call order
    keepsIndex,      \* does this pandas build's json_normalize keep the index
    df_raw, df_cleaned, df_transformed, df_regioes, df_enriched, df_final,
    snapshot,        \* dados_brutos_municipios.csv: its lines, and the writes to it
    env,             \* what os.getenv answered inside carregar_dados
    db,              \* the table municipios_brasil
    db0,             \* the table as it was when the run started
    dbLog,           \* the steps of the try block that were started
    caught           \* the step whose exception line 190 caught, or "none"

vars == <<pc, net, trace, keepsIndex, df_raw, df_cleaned, df_transformed, df_regioes,
          df_enriched, df_final, snapshot, env, db, db0, dbLog, caught>>

frames == <<df_raw, df_cleaned, df_transformed, df_regioes, df_enriched, df_final>>
loader == <<env, db, dbLog, caught>>

StageOrder ==
    <<"extrair_dados", "explorar_dados", "limpar_dados", "transformar_dados",
      "enriquecer_dados", "carregar_dados">>

NoEnv == [n \in CredNames |-> FALSE]

Init ==
    /\ pc = "Start"
    /\ net = "none"
    /\ trace = << >>
    /\ keepsIndex \in BOOLEAN
    /\ df_raw = None /\ df_cleaned = None /\ df_transformed = None
    /\ df_regioes = None /\ df_enriched = None /\ df_final = None
    /\ snapshot = [lines |-> 0, writes |-> 0]
    /\ env = NoEnv
    /\ db \in {NoTable, OldTable}
    /\ db0 = db
    /\ dbLog = << >>
    /\ caught = "none"

\* df.to_csv(RAW_DATA_PATH, index=False): a header line and a line per row,
\* overwriting the file
to_csv(df, file) == [lines |-> 1 + NRows(df), writes |-> file.writes + 1]

\* pipeline_completa without the `if df_raw is None` test of line 201
Extract_no_check ==
    /\ pc = "Start"
    /\ trace' = Append(trace, "extrair_dados")
    /\ \E outcome \in NetOutcomes :
        /\ net' = outcome
        /\ pc' = "Extracted"
        /\ IF outcome = "ok"
           THEN \E data \in ApiResponses :
                   /\ df_raw' = DataFrame(data)
                   /\ snapshot' = to_csv(DataFrame(data), snapshot)
           ELSE /\ df_raw' = None
                /\ UNCHANGED snapshot
    /\ UNCHANGED <<keepsIndex, df_cleaned, df_transformed, df_regioes, df_enriched,
                   df_final, db0>>
    /\ UNCHANGED loader

\* extrair_dados writing the backup before raise_for_status
Extract_write_first ==
    /\ pc = "Start"
    /\ trace' = Append(trace, "extrair_dados")
    /\ \E outcome \in NetOutcomes :
        /\ net' = outcome
        /\ IF outcome = "ok"
           THEN \E data \in ApiResponses :
                   /\ df_raw' = DataFrame(data)
                   /\ snapshot' = to_csv(DataFrame(data), snapshot)
                   /\ pc' = "Extracted"
           ELSE /\ df_raw' = None
                /\ pc' = "Aborted"
                /\ IF outcome = "http_error"
                   THEN snapshot' = to_csv(DataFrame(<< >>), snapshot)
                   ELSE UNCHANGED snapshot
    /\ UNCHANGED <<keepsIndex, df_cleaned, df_transformed, df_regioes, df_enriched,
                   df_final, db0>>
    /\ UNCHANGED loader

\* lines 200-203 with extrair_dados, lines 26-47
Extract ==
    /\ pc = "Start"
    /\ trace' = Append(trace, "extrair_dados")
    /\ \E outcome \in NetOutcomes :
        /\ net' = outcome
        /\ IF outcome = "ok"
           THEN \E data \in ApiResponses :
                   /\ df_raw' = DataFrame(data)
                   /\ snapshot' = to_csv(DataFrame(data), snapshot)
                   /\ pc' = "Extracted"
           ELSE /\ df_raw' = None      \* RequestException, line 45
                /\ pc' = "Aborted"
                /\ UNCHANGED snapshot
    /\ UNCHANGED <<keepsIndex, df_cleaned, df_transformed, df_regioes, df_enriched,
                   df_final, db0>>
    /\ UNCHANGED loader

\* line 205 with explorar_dados, lines 49-63: reads, prints, changes nothing
Explore ==
    /\ pc = "Extracted"
    /\ trace' = Append(trace, "explorar_dados")
    /\ UNCHANGED net
    /\ pc' = "Explored"
    /\ UNCHANGED <<keepsIndex, snapshot, db0>>
    /\ UNCHANGED frames
    /\ UNCHANGED loader

\* line 206
Clean ==
    /\ pc = "Explored"
    /\ trace' = Append(trace, "limpar_dados")
    /\ UNCHANGED net
    /\ df_cleaned' = limpar_dados(df_raw)
    /\ pc' = "Cleaned"
    /\ UNCHANGED <<keepsIndex, df_raw, df_transformed, df_regioes, df_enriched,
                   df_final, snapshot, db0>>
    /\ UNCHANGED loader

\* line 207; the column assignments of lines 95-97 also change df_cleaned
Transform ==
    /\ pc = "Cleaned"
    /\ trace' = Append(trace, "transformar_dados")
    /\ UNCHANGED net
    /\ df_cleaned' = WithUF(df_cleaned, keepsIndex)
    /\ df_transformed' = transformar_dados(df_cleaned, keepsIndex)
    /\ pc' = "Transformed"
    /\ UNCHANGED <<keepsIndex, df_raw, df_regioes, df_enriched, df_final,
                   snapshot, db0>>
    /\ UNCHANGED loader

\* lines 208-212 with enriquecer_dados, lines 112-139
Enrich ==
    /\ pc = "Transformed"
    /\ trace' = Append(trace, "enriquecer_dados")
    /\ UNCHANGED net
    /\ \/ \E ref \in RefTables :
            /\ df_regioes' = DataFrame(ref)
            /\ df_enriched' = enriquecer_dados(df_transformed, DataFrame(ref))
            /\ pc' = "Enriched"
       \/ /\ df_regioes' = None          \* FileNotFoundError
          /\ df_enriched' = None
          /\ pc' = "Aborted"
    /\ UNCHANGED <<keepsIndex, df_raw, df_cleaned, df_transformed, df_final,
                   snapshot, db0>>
    /\ UNCHANGED loader

\* lines 215-223 with carregar_dados, lines 141-191
Load ==
    /\ pc = "Enriched"
    /\ trace' = Append(trace, "carregar_dados")
    /\ UNCHANGED net
    /\ df_final' = Select(df_enriched, colunas_finais)
    /\ \E e \in Environments, fail \in FailPoints :
        LET r == carregar_dados(Select(df_enriched, colunas_finais), e, db, fail)
        IN  /\ env' = e
            /\ db' = r.db
            /\ dbLog' = r.log
            /\ caught' = r.caught
    /\ pc' = "Loaded"
    /\ UNCHANGED <<keepsIndex, df_raw, df_cleaned, df_transformed, df_regioes,
                   df_enriched, snapshot, db0>>

\* line 225: the closing message
Finish ==
    /\ pc = "Loaded"
    /\ pc' = "Done"
    /\ UNCHANGED <<net, trace, keepsIndex, snapshot, db0>>
    /\ UNCHANGED frames
    /\ UNCHANGED loader

Next == Extract \/ Explore \/ Clean \/ Transform \/ Enrich \/ Load \/ Finish

Spec == Init /\ [][Next]_vars

----------------------------------------------------------------------------
(* The claims                                                              *)

IsPrefix(s, t) == Len(s) <= Len(t) /\ \A i \in 1..Len(s) : s[i] = t[i]

Ended == pc \in {"Loaded", "Done"}

\* the bulk write of to_sql completed in this run
BulkWriteDone == Ended /\ \E i \in DOMAIN dbLog : dbLog[i] = "insert" /\ caught # "insert"

\* C1: the stages are called in the fixed order extract, profile, clean,
\* transform, enrich, load; a run stops only in Done or Aborted; Aborted is
\* entered only when extrair_dados (first call) or enriquecer_dados (fifth
\* call) returned None; after such a None no further stage is called, so
\* carregar_dados does not run and the destination table is untouched.
C1_StagesInOrderTwoAbortEdges ==
    /\ IsPrefix(trace, StageOrder)
    /\ (pc = "Done" => trace = StageOrder)
    /\ (pc = "Aborted" =>
            \/ trace = SubSeq(StageOrder, 1, 1) /\ df_raw = None
            \/ trace = SubSeq(StageOrder, 1, 5) /\ df_raw # None /\ df_enriched = None)
    /\ ( (\/ Len(trace) >= 1 /\ df_raw = None
          \/ Len(trace) >= 5 /\ df_enriched = None)
         => /\ pc = "Aborted"
            /\ \A i \in DOMAIN trace : trace[i] # "carregar_dados"
            /\ db = db0 /\ dbLog = << >> )
    /\ (pc \notin {"Done", "Aborted"} => ENABLED Next)

\* a run aborted by a missing reference file, after five stages
C1_Witness ==
    pc = "Aborted" /\ Len(trace) = 5 /\ df_enriched = None /\ db0 = OldTable

\* C2: an exception raised by any step of the try block of carregar_dados
\* (engine creation, connection, drop, create, bulk insert, ALTER TABLE,
\* a primary-key violation included) is caught there: the step that raised
\* is the last one started, the table shows the effect of the earlier steps
\* only, the function returns and the pipeline goes on to Done.
C2_LoaderFailureCaught ==
    caught # "none" =>
        /\ Ended
        /\ dbLog # << >>
        /\ dbLog[Len(dbLog)] = caught
        /\ IsPrefix(dbLog, LoadSteps(db0))
        /\ Len(dbLog) < Len(LoadSteps(db0)) \/ caught = "alter"
        /\ (caught \in {"create_engine", "connect", "drop"} => db = db0)
        /\ (caught = "create" => ~db.exists)
        /\ (caught = "insert" => db.exists /\ db.rows = << >> /\ ~db.pk)
        /\ (caught \in {"reconnect", "alter"} => db.exists /\ ~db.pk)
        /\ (pc = "Loaded" => ENABLED Finish)

\* the ALTER TABLE refused because two loaded rows share id_municipio, and
\* the run completed
C2_Witness ==
    /\ pc = "Done"
    /\ caught = "alter"
    /\ \E i, j \in DOMAIN db.rows :
        i < j /\ db.rows[i].id_municipio = db.rows[j].id_municipio

\* C3: with any of DB_USER, DB_PASSWORD, DB_HOST, DB_NAME unset,
\* carregar_dados starts no step of the try block (no connection, no
\* database operation), the table is as it was, and the pipeline still ends
\* in Done.
C3_MissingCredentialNoDatabaseWork ==
    (Ended /\ \E n \in CredNames : ~env[n]) =>
        /\ dbLog = << >>
        /\ db = db0
        /\ caught = "none"
        /\ (pc = "Loaded" => ENABLED Finish)

\* exactly one of the four is unset, a table existed, the run completed
C3_Witness ==
    /\ pc = "Done"
    /\ Cardinality({ n \in CredNames : ~env[n] }) = 1
    /\ db0 = OldTable

\* C4: on a timeout, a connection failure or an error status extrair_dados
\* returns None (it does not leave the pipeline in any state but Aborted),
\* and the snapshot file is written exactly when a table is returned.
C4_ExtractFailureSignalAndSnapshot ==
    Len(trace) >= 1 =>
        /\ (net # "ok" => df_raw = None /\ pc = "Aborted")
        /\ (df_raw = None => snapshot.writes = 0 /\ snapshot.lines = 0)
        /\ (df_raw # None => snapshot.writes = 1 /\ snapshot.lines = 1 + NRows(df_raw))

\* an error status answered the GET
C4_Witness == net = "http_error" /\ pc = "Aborted" /\ Len(trace) = 1

\* C5: once the bulk write of a run succeeded the table holds exactly the
\* rows handed to carregar_dados, in order, whatever it held before; with
\* the primary key present exactly when no step raised, the final table is
\* a function of the input alone, so a second run on the same input leaves
\* it as the first did.
C5_FullReplace ==
    BulkWriteDone =>
        /\ db.exists
        /\ db.rows = SqlRows(df_final)
        /\ db.pk = (caught = "none")

\* the table held a previous run's row and the bulk write succeeded
C5_Witness == BulkWriteDone /\ db0 = OldTable /\ pc = "Done" /\ db.pk

\* C6: after a run that wrote rows, id_municipio is non-null and unique in
\* the destination table.
C6_KeyUniqueNonNull ==
    BulkWriteDone =>
        /\ \A i \in DOMAIN db.rows : db.rows[i].id_municipio # NULL
        /\ \A i, j \in DOMAIN db.rows :
            i # j => db.rows[i].id_municipio # db.rows[j].id_municipio

\* the record of df_raw a row with index label l was made from
Original(l) == df_raw.data[l + 1]

\* C7: every row of the Transformer's result carries the UF id, sigla and
\* nome nested in its own original record, and neither nested column.
C7_FlattenedFromOwnRecord ==
    df_transformed # None =>
        \A i \in 1..NRows(df_transformed) :
            LET r  == df_transformed.data[i]
                uf == Original(df_transformed.index[i]).microrregiao.mesorregiao.UF
            IN  /\ r["id_uf"] = uf.id.v
                /\ r["sigla_uf"] = uf.sigla
                /\ r["nome_uf"] = uf.nome
                /\ "microrregiao" \notin DOMAIN r
                /\ "regiao-imediata" \notin DOMAIN r

UniqueKeys(df) ==
    \A i, j \in 1..NRows(df) : i # j => df.data[i].codigo_uf # df.data[j].codigo_uf

\* C8: with the reference file present and its codigo_uf values unique,
\* enriquecer_dados returns its input rows, each once and in order, each
\* with the nome_regiao of the reference row whose codigo_uf is its id_uf,
\* or a null nome_regiao when there is none.
C8_LeftJoinKeepsRows ==
    (df_enriched # None /\ UniqueKeys(df_regioes)) =>
        /\ NRows(df_enriched) = NRows(df_transformed)
        /\ \A i \in 1..NRows(df_enriched) :
            LET out == df_enriched.data[i]
                in  == df_transformed.data[i]
                hit == { k \in 1..NRows(df_regioes) :
                            df_regioes.data[k].codigo_uf = in["id_uf"] }
            IN  /\ DOMAIN out = DOMAIN in \cup {"nome_regiao"}
                /\ \A c \in DOMAIN in : out[c] = in[c]
                /\ (hit = {} => out["nome_regiao"] = NaNStr)
                /\ \A k \in hit : out["nome_regiao"] = df_regioes.data[k].nome_regiao

\* a join in which one row found its region and another found none
C8_Witness ==
    /\ df_enriched # None
    /\ UniqueKeys(df_regioes)
    /\ \E i, j \in 1..NRows(df_enriched) :
        /\ df_enriched.data[i]["nome_regiao"] = "Nordeste"
        /\ df_enriched.data[j]["nome_regiao"] = NaNStr

\* positions of df_raw whose id is the id of position i
SameId(i) == { j \in 1..NRows(df_raw) : df_raw.data[j].id = df_raw.data[i].id }

Min(S) == CHOOSE x \in S : \A y \in S : x <= y

\* C9: limpar_dados keeps, for each id value of its input, exactly the
\* first row carrying it (renamed), and keeps them in input order.
C9_FirstOccurrenceKept ==
    pc = "Cleaned" =>
        /\ \A i \in 1..NRows(df_raw) :
            LET first == Min(SameId(i))
                at == { k \in 1..NRows(df_cleaned) :
                            df_cleaned.data[k]["id_municipio"] = df_raw.data[i].id }
            IN  /\ Cardinality(at) = 1
                /\ \A k \in at :
                    /\ df_cleaned.index[k] = first - 1
                    /\ df_cleaned.data[k]["nome_municipio"] = df_raw.data[first].nome
                    /\ df_cleaned.data[k].microrregiao = df_raw.data[first].microrregiao
        /\ \A k \in 1..NRows(df_cleaned) :
            \E i \in 1..NRows(df_raw) : df_cleaned.data[k]["id_municipio"] = df_raw.data[i].id
        /\ \A k, m \in 1..NRows(df_cleaned) :
            k < m => df_cleaned.index[k] < df_cleaned.index[m]

\* duplicates were removed and more than one row was kept
C9_Witness ==
    pc = "Cleaned" /\ NRows(df_cleaned) < NRows(df_raw) /\ NRows(df_cleaned) >= 2

\* C10: limpar_dados applied to its own result returns it unchanged, and
\* finds no duplicated id_municipio in it.
C10_CleanerIdempotent ==
    pc = "Cleaned" =>
        /\ limpar_dados(df_cleaned) = df_cleaned
        /\ \A i, j \in 1..NRows(df_cleaned) :
            i # j => df_cleaned.data[i]["id_municipio"] # df_cleaned.data[j]["id_municipio"]

\* the first application removed two rows
C10_Witness == pc = "Cleaned" /\ NRows(df_raw) - NRows(df_cleaned) >= 2

====
